---- MODULE Spec2Model ----
(***************************************************************************)
(* A model of app.py: the MTP allocation tool.                             *)
(*   - the logger setup (lines 10-23),                                     *)
(*   - find_cgpa_col and allocate_students (lines 28-81),                  *)
(*   - the Streamlit script (lines 86-136).                                *)
(* Indices are zero-based where the code's are (cgpa_idx, idx); TLA+       *)
(* sequences are one-based, so position p of the code is element p + 1.    *)
(***************************************************************************)
EXTENDS Integers, Sequences, FiniteSets, TLC

VARIABLES
    orig,           \* the Uploaded Dataset as it was loaded (never mutated)
    df,             \* the dataset object handed to allocate_students (mutated in place)
    memo,           \* numpy argsort of this build: key array -> the permutation it returns
    results,        \* the calls of allocate_students: the first and the latest (the run's, in a session)
    events,         \* the ordered effects (log lines, UI elements) of the last call or script run
    handlers,       \* logger.handlers of the process-wide logger "allocation_app"
    uploaded_file,  \* what st.file_uploader returns in the session
    pc,             \* per session: position in the logger setup code
    runs            \* per session: completed executions of the logger setup code

vars == <<orig, df, memo, results, events, handlers, uploaded_file, pc, runs>>

(***************************************************************************)
(* Bounds of the model.                                                    *)
(***************************************************************************)
MaxRows == 3
MaxCols == 3
MaxSessions == 3
MaxReruns == 2

(***************************************************************************)
(* Text: a string is a sequence of characters.                             *)
(***************************************************************************)
UpperToLower ==
    [c \in {"A", "C", "F", "G", "P", "R", "S"} |->
        CASE c = "A" -> "a" [] c = "C" -> "c" [] c = "F" -> "f" [] c = "G" -> "g"
          [] c = "P" -> "p" [] c = "R" -> "r" [] c = "S" -> "s"]

\* str.lower() on one character, then on a string
LowerChar(c) == IF c \in DOMAIN UpperToLower THEN UpperToLower[c] ELSE c

\* a sequence given by a rule, as a tuple
Tup(f) == f \o <<>>

Lower(s) == Tup([i \in 1..Len(s) |-> LowerChar(s[i])])

\* the Python test  sub in s
Contains(s, sub) ==
    \E i \in 1..(Len(s) - Len(sub) + 1) : SubSeq(s, i, i + Len(sub) - 1) = sub

cgpa == <<"c", "g", "p", "a">>

\* column names of the uploads
nRoll == <<"R", "o", "l", "l">>
nCGPA == <<"C", "G", "P", "A">>
nMyCgpa == <<"m", "y", "C", "g", "p", "a">>
nGpa == <<"G", "P", "A">>
nPref1 == <<"P", "1">>
nPref2 == <<"P", "2">>
AssignedFaculty ==
    <<"A", "s", "s", "i", "g", "n", "e", "d", "F", "a", "c", "u", "l", "t", "y">>

(***************************************************************************)
(* Cells of a dataframe: a number, a text, or the missing marker NaN.      *)
(***************************************************************************)
Num(n) == [t |-> "num", n |-> n, s |-> <<>>]
Text(s) == [t |-> "text", n |-> 0, s |-> s]
NaN == [t |-> "nan", n |-> 0, s |-> <<>>]

isna(c) == c.t = "nan"

DigitValue ==
    [c \in {"0", "1", "2", "3"} |->
        CASE c = "0" -> 0 [] c = "1" -> 1 [] c = "2" -> 2 [] c = "3" -> 3]

RECURSIVE ParseDigits(_)
ParseDigits(s) ==
    IF s = <<>> THEN 0
    ELSE 10 * ParseDigits(SubSeq(s, 1, Len(s) - 1)) + DigitValue[s[Len(s)]]

\* A plausible bug of the coercion: only strings are parsed, a value that is
\* already a number is treated as unparseable.
to_numeric_strings_only(c) ==
    IF c.t = "text" /\ c.s # <<>> /\ \A i \in 1..Len(c.s) : c.s[i] \in DOMAIN DigitValue
    THEN Num(ParseDigits(c.s))
    ELSE NaN

\* pd.to_numeric(..., errors="coerce") on one cell: a number stays, a text of
\* digits is parsed, anything else becomes NaN.
to_numeric(c) ==
    IF c.t = "num" THEN c
    ELSE IF c.t = "text" /\ c.s # <<>> /\ \A i \in 1..Len(c.s) : c.s[i] \in DOMAIN DigitValue
    THEN Num(ParseDigits(c.s))
    ELSE NaN

(***************************************************************************)
(* Dataframes: named columns and rows of cells.                            *)
(***************************************************************************)
NoDf == [columns |-> <<>>, rows |-> <<>>]

\* position (one-based) of the column named name
ColPos(columns, name) == CHOOSE p \in 1..Len(columns) : columns[p] = name

\* row[name]
RowGet(columns, row, name) == row[ColPos(columns, name)]

\* frame[name] = values: an existing column is overwritten in place, a new
\* one is appended on the right.
SetColumn(frame, name, values) ==
    IF \E p \in 1..Len(frame.columns) : frame.columns[p] = name
    THEN [columns |-> frame.columns,
          rows |-> Tup([r \in 1..Len(frame.rows) |->
                      [frame.rows[r] EXCEPT ![ColPos(frame.columns, name)] = values[r]]])]
    ELSE [columns |-> Append(frame.columns, name),
          rows |-> Tup([r \in 1..Len(frame.rows) |-> Append(frame.rows[r], values[r])])]

\* frame[name] as a sequence of cells
Column(frame, name) ==
    Tup([r \in 1..Len(frame.rows) |-> RowGet(frame.columns, frame.rows[r], name)])

\* frame.take(indexer).reset_index(drop=True)
Take(frame, indexer) ==
    [columns |-> frame.columns,
     rows |-> Tup([i \in 1..Len(indexer) |-> frame.rows[indexer[i]]])]

(***************************************************************************)
(* Sorting.  sort_values is called without kind=, so numpy's default       *)
(* quicksort runs: it is not stable, the order it gives equal keys is a    *)
(* property of the build.  It is a function of the key array all the same: *)
(* memo holds the answers this build has given so far.                     *)
(***************************************************************************)
Perms(k) == {p \in [1..k -> 1..k] : \A i, j \in 1..k : p[i] = p[j] => i = j}

\* the results numpy's arr.argsort(kind="quicksort") may give: any
\* permutation that puts arr in ascending order
ArgsortResults(arr) ==
    {p \in Perms(Len(arr)) : \A i \in 1..(Len(arr) - 1) : arr[p[i]] <= arr[p[i + 1]]}

\* what this build answers for arr, given what it has answered before
Argsorts(m, arr) == IF arr \in DOMAIN m THEN {m[arr]} ELSE ArgsortResults(arr)

Remember(m, arr, p) == [a \in DOMAIN m \cup {arr} |-> IF a = arr THEN p ELSE m[a]]

Reverse(s) == Tup([i \in 1..Len(s) |-> s[Len(s) + 1 - i]])

RECURSIVE Positions(_, _)
\* np.nonzero(mask): the positions p of keys with Test(keys[p]), ascending
Positions(mask, from) ==
    IF from > Len(mask) THEN <<>>
    ELSE IF mask[from] THEN <<from>> \o Positions(mask, from + 1)
    ELSE Positions(mask, from + 1)

\* A plausible bug: the rows without a grade are left out of the ranking.
nargsort_dropna(keys, p) ==
    LET mask == Tup([i \in 1..Len(keys) |-> isna(keys[i])])
        non_nan_idx == Reverse(Positions(Tup([i \in 1..Len(keys) |-> ~mask[i]]), 1))
        nan_idx == Positions(mask, 1)
        indexer == Reverse(Tup([i \in 1..Len(p) |-> non_nan_idx[p[i]]]))
    IN  indexer

\* pandas' nargsort(keys, ascending=False, na_position="last") given the
\* permutation p that argsort returned for the reversed non-missing keys:
\* the non-missing positions in descending key order, then the missing ones
\* in input order.
nargsort(keys, p) ==
    LET mask == Tup([i \in 1..Len(keys) |-> isna(keys[i])])
        non_nan_idx == Reverse(Positions(Tup([i \in 1..Len(keys) |-> ~mask[i]]), 1))
        nan_idx == Positions(mask, 1)
        indexer == Reverse(Tup([i \in 1..Len(p) |-> non_nan_idx[p[i]]]))
    IN  indexer \o nan_idx

\* the array nargsort hands to argsort: the non-missing keys, reversed
SortKeys(keys) ==
    LET mask == Tup([i \in 1..Len(keys) |-> ~isna(keys[i])])
        pos == Reverse(Positions(mask, 1))
    IN  Tup([i \in 1..Len(pos) |-> keys[pos[i]].n])

(***************************************************************************)
(* The logger (lines 10-23) and its handlers.                              *)
(***************************************************************************)
DEBUG == 10
INFO == 20
WARNING == 30
ERROR == 40

fh == [sink |-> "file", level |-> DEBUG]
sh == [sink |-> "console", level |-> INFO]

LevelNo(name) ==
    CASE name = "DEBUG" -> DEBUG [] name = "INFO" -> INFO
      [] name = "WARNING" -> WARNING [] name = "ERROR" -> ERROR

\* lines 14-23 run without interruption: the handlers are added when the
\* logger has none
LoggerSetup(hs) == IF hs = <<>> THEN <<fh, sh>> ELSE hs

\* logger.info / warning / exception: one line on every handler whose level
\* admits the record, in the order of logger.handlers
Emit(hs, level, msg) ==
    LET admits == Tup([i \in 1..Len(hs) |-> hs[i].level <= LevelNo(level)])
        pos == Positions(admits, 1)
    IN  Tup([i \in 1..Len(pos) |->
            [ch |-> hs[pos[i]].sink, kind |-> level, text |-> <<msg>>, data |-> NoDf]])

(***************************************************************************)
(* find_cgpa_col (lines 28-33).                                            *)
(***************************************************************************)
None == -1

RECURSIVE find_cgpa_col_last(_, _)
\* A plausible bug: the last matching column instead of the first.
find_cgpa_col_last(cols, i) ==
    IF i >= Len(cols) THEN None
    ELSE IF Contains(Lower(cols[Len(cols) - i]), cgpa) THEN Len(cols) - i - 1
    ELSE find_cgpa_col_last(cols, i + 1)

RECURSIVE find_cgpa_col(_, _)
\* the loop from position i on: the index of the first column whose
\* lower-cased name contains "cgpa", or None
find_cgpa_col(cols, i) ==
    IF i >= Len(cols) THEN None
    ELSE IF Contains(Lower(cols[i + 1]), cgpa) THEN i
    ELSE find_cgpa_col(cols, i + 1)

(***************************************************************************)
(* allocate_students (lines 35-81).                                        *)
(***************************************************************************)
MsgNoCgpa ==
    "No column with name containing 'cgpa' found. Please ensure your CSV has a CGPA column."
MsgNoPrefs ==
    "No preference columns found after the CGPA column. At least one preference column is required."
MsgDetected == "Detected CGPA column"
MsgCoerced ==
    "Some CGPA values could not be converted to numeric (NaN). These rows will be sorted with NaN at the end."
MsgAllocError == "Error during allocation"

NoExc == [kind |-> "", msg |-> ""]
ValueError(msg) == [kind |-> "ValueError", msg |-> msg]

\* A plausible bug: the handler wraps the failure in an error of its own.
Reraise_wrapped(exc) == [kind |-> "RuntimeError", msg |-> MsgAllocError]

\* line 81: the bare raise hands the caught exception on
Reraise(exc) == exc

\* lines 41-48: the exception the validation raises, NoExc when it passes
Validate(cols) ==
    LET cgpa_idx == find_cgpa_col(cols, 0)
    IN  IF cgpa_idx = None THEN ValueError(MsgNoCgpa)
        ELSE IF Len(SubSeq(cols, cgpa_idx + 2, Len(cols))) = 0 THEN ValueError(MsgNoPrefs)
        ELSE NoExc

\* lines 54-55: the grade column coerced in place
Coerce(frame, cgpa_col) ==
    LET p == ColPos(frame.columns, cgpa_col)
    IN  [columns |-> frame.columns,
         rows |-> Tup([r \in 1..Len(frame.rows) |->
                     [frame.rows[r] EXCEPT ![p] = to_numeric(frame.rows[r][p])]])]

\* A plausible bug: the round-robin runs over the rank alone (idx % n is
\* dropped for ranks past the last preference column).
PickPref_clamped(pref_cols, idx) ==
    pref_cols[(IF idx < Len(pref_cols) THEN idx ELSE Len(pref_cols) - 1) + 1]

\* line 64: pref_cols[idx % n]
PickPref(pref_cols, idx) == pref_cols[(idx % Len(pref_cols)) + 1]

\* lines 62-66: the assigned faculty of every ranked row
Assigned(df_sorted, pref_cols) ==
    Tup([i \in 1..Len(df_sorted.rows) |->
        RowGet(df_sorted.columns, df_sorted.rows[i], PickPref(pref_cols, i - 1))])

RECURSIVE Unique(_)
\* the distinct values of a sequence in order of first appearance
Unique(s) ==
    IF s = <<>> THEN <<>>
    ELSE LET u == Unique(SubSeq(s, 1, Len(s) - 1))
         IN  IF \E i \in 1..Len(u) : u[i] = s[Len(s)] THEN u ELSE Append(u, s[Len(s)])

CountOf(s, v) == Cardinality({i \in 1..Len(s) : s[i] = v})

\* A plausible bug: value_counts() with its default dropna=True.
Counts_dropna(s) ==
    LET u == Unique(s)
        pos == Positions(Tup([i \in 1..Len(u) |-> ~isna(u[i])]), 1)
    IN  Tup([i \in 1..Len(pos) |->
            [Faculty |-> u[pos[i]], AllocatedCount |-> Num(CountOf(s, u[pos[i]]))]])

\* line 74, before the sort: value_counts(dropna=False) counts every distinct
\* value, NaN among them
Counts(s) ==
    LET u == Unique(s)
    IN  Tup([i \in 1..Len(u) |-> [Faculty |-> u[i], AllocatedCount |-> Num(CountOf(s, u[i]))]])

CountKeys(counted) == Tup([i \in 1..Len(counted) |-> counted[i].AllocatedCount])

nFaculty == <<"F", "a", "c", "u", "l", "t", "y">>
nAllocatedCount ==
    <<"A", "l", "l", "o", "c", "a", "t", "e", "d", "C", "o", "u", "n", "t">>

\* lines 74-75: the table of the counts in the order that the sort by count,
\* descending, gave (cp: what argsort returned)
FacCount(counted, cp) ==
    LET order == nargsort(CountKeys(counted), cp)
    IN  [columns |-> <<nFaculty, nAllocatedCount>>,
         rows |-> Tup([i \in 1..Len(order) |->
                     <<counted[order[i]].Faculty, counted[order[i]].AllocatedCount>>])]

\* lines 50-71 on a frame that passed the validation: the frame coerced in
\* place, the ranking, and the allocation table (gp: what argsort returned
\* for the grade keys)
Allocation(frame, gp) ==
    LET cols == frame.columns
        cgpa_idx == find_cgpa_col(cols, 0)
        pref_cols == SubSeq(cols, cgpa_idx + 2, Len(cols))
        cgpa_col == cols[cgpa_idx + 1]
        coerced == Coerce(frame, cgpa_col)
        keys == Column(coerced, cgpa_col)
        indexer == nargsort(keys, gp)
        df_sorted == Take(coerced, indexer)
        assigned == Assigned(df_sorted, pref_cols)
    IN  [df |-> coerced, keys |-> keys, indexer |-> indexer,
         allocation_df |-> SetColumn(df_sorted, AssignedFaculty, assigned)]

\* lines 79-81: the call logs the failure and raises it again
Raise(frame, hs, exc) ==
    [status |-> "raised", exc |-> Reraise(exc), df |-> frame,
     allocation_df |-> NoDf, fac_count |-> NoDf, indexer |-> <<>>,
     logs |-> Emit(hs, "ERROR", MsgAllocError)]

\* lines 73-77, with the lines logged on the way (51, 57): the call returns
\* the allocation a and the count table (cp: what argsort returned for the
\* counts)
Return(a, hs, cp) ==
    [status |-> "returned", exc |-> NoExc, df |-> a.df,
     allocation_df |-> a.allocation_df,
     fac_count |-> FacCount(Counts(Column(a.allocation_df, AssignedFaculty)), cp),
     indexer |-> a.indexer,
     logs |-> Emit(hs, "INFO", MsgDetected)
              \o (IF \E r \in 1..Len(a.keys) : isna(a.keys[r])
                  THEN Emit(hs, "WARNING", MsgCoerced) ELSE <<>>)]

\* the key arrays the call hands to argsort: the grades, then the counts
GradeSortKeys(frame) ==
    LET cols == frame.columns
        cgpa_col == cols[find_cgpa_col(cols, 0) + 1]
    IN  SortKeys(Column(Coerce(frame, cgpa_col), cgpa_col))

CountSortKeys(a) ==
    SortKeys(CountKeys(Counts(Column(a.allocation_df, AssignedFaculty))))

\* The call allocate_students(frame) on a build that has answered m so far:
\* every outcome it may have, each with what it returns or raises (r: the
\* tables or the exception, the frame as the call leaves it, the lines it
\* logs) and the build's answers after it.
allocate_students(frame, hs, m) ==
    LET exc == Validate(frame.columns)
    IN  IF exc # NoExc
        THEN {[r |-> Raise(frame, hs, exc), memo |-> m]}
        ELSE LET gk == GradeSortKeys(frame)
             IN  UNION {
                    LET a == Allocation(frame, gp)
                        m1 == Remember(m, gk, gp)
                        ck == CountSortKeys(a)
                    IN  {[r |-> Return(a, hs, cp), memo |-> Remember(m1, ck, cp)] :
                            cp \in Argsorts(m1, ck)} :
                    gp \in Argsorts(m, gk)}

\* a call as its caller sees it: the frame it passed, and what came back
Outcome(frame, r) ==
    [arg |-> frame, status |-> r.status, exc |-> r.exc,
     allocation_df |-> r.allocation_df, fac_count |-> r.fac_count,
     indexer |-> r.indexer]

(***************************************************************************)
(* The uploads the model draws from.  A row is made of a grade g and a     *)
(* faculty pattern f: the columns named after a grade hold g, P1, P2 and   *)
(* AssignedFaculty hold f[1], f[2], f[3], and Roll holds the row number.   *)
(***************************************************************************)
FacX == Text(<<"X">>)
FacY == Text(<<"Y">>)

GradeCells == {Num(1), Text(<<"2">>), Text(<<"x">>)}
FacPatterns == {<<FacX, FacY, FacY>>, <<NaN, FacX, FacX>>}

CellFor(name, r, pick) ==
    CASE name = nRoll -> Num(r)
      [] name = nPref1 -> pick.f[1]
      [] name = nPref2 -> pick.f[2]
      [] name = AssignedFaculty -> pick.f[3]
      [] OTHER -> pick.g

MkDf(header, picks) ==
    [columns |-> header,
     rows |-> Tup([r \in 1..Len(picks) |->
                 Tup([c \in 1..Len(header) |-> CellFor(header[c], r, picks[r])])])]

Picks(G, F) == UNION {[1..k -> [g : G, f : F]] : k \in 0..MaxRows}

\* well-formed uploads and their variations
EngineHeaders ==
    {<<nRoll, nCGPA, nPref1, nPref2>>,
     <<nCGPA, nPref1, AssignedFaculty>>,
     <<AssignedFaculty, nCGPA, nPref1>>,
     <<nRoll, nMyCgpa, nPref1, nCGPA>>}

\* the rows of the engine's uploads: a tie in the grade between rows of
\* different preferences, a grade as text, a grade that is no number
EngineRows ==
    {[g |-> Num(1), f |-> <<FacX, FacY, FacY>>],
     [g |-> Num(1), f |-> <<NaN, FacX, FacX>>],
     [g |-> Text(<<"2">>), f |-> <<NaN, FacX, FacX>>],
     [g |-> Text(<<"x">>), f |-> <<FacX, FacY, FacY>>]}

EngineDatasets ==
    {MkDf(h, p) : h \in EngineHeaders,
                  p \in {q \in Picks(GradeCells, FacPatterns) :
                            \A r \in DOMAIN q : q[r] \in EngineRows}}

\* headers of every shape, with plain rows
Names == {nRoll, nCGPA, nMyCgpa, nGpa, nPref1, AssignedFaculty}

Headers ==
    UNION {{h \in [1..k -> Names] : \A i, j \in 1..k : h[i] = h[j] => i = j} : k \in 1..MaxCols}

DetectDatasets == {MkDf(h, p) : h \in Headers, p \in Picks({Num(1)}, {<<FacX, FacY, FacY>>})}

(***************************************************************************)
(* Direct calls of the engine on a loaded dataset.                         *)
(***************************************************************************)
NoFile == [parse |-> "none", msg |-> "", data |-> NoDf]

InitCommon ==
    /\ df = orig
    /\ memo = <<>>
    /\ results = <<>>
    /\ events = <<>>
    /\ handlers = <<fh, sh>>
    /\ uploaded_file = NoFile
    /\ pc = [s \in 1..MaxSessions |-> "done"]
    /\ runs = [s \in 1..MaxSessions |-> 1]

InitEngine == orig \in EngineDatasets /\ InitCommon

InitDetect == orig \in DetectDatasets /\ InitCommon

\* results keeps the first call and the latest one
Record(rs, o) == IF Len(rs) < 2 THEN Append(rs, o) ELSE <<rs[1], o>>

\* allocate_students(df) on the dataset object itself, which an earlier call
\* may have coerced in place
AllocateSame ==
    /\ \E o \in allocate_students(df, handlers, memo) :
          /\ df' = o.r.df
          /\ memo' = o.memo
          /\ results' = Record(results, Outcome(df, o.r))
          /\ events' = o.r.logs
    /\ UNCHANGED <<orig, handlers, uploaded_file, pc, runs>>

\* a later call, on a fresh, identical copy of the Uploaded Dataset
AllocateFresh ==
    /\ results # <<>>
    /\ \E o \in allocate_students(orig, handlers, memo) :
          /\ memo' = o.memo
          /\ results' = Record(results, Outcome(orig, o.r))
          /\ events' = o.r.logs
    /\ UNCHANGED <<orig, df, handlers, uploaded_file, pc, runs>>

NextEngine == AllocateSame \/ AllocateFresh

SpecEngine == InitEngine /\ [][NextEngine]_vars

SpecDetect == InitDetect /\ [][NextEngine]_vars

(***************************************************************************)
(* The Streamlit script (lines 86-136).  Every interaction of the user     *)
(* runs the script from the top; events holds what the run rendered and    *)
(* logged, in order.                                                       *)
(***************************************************************************)
Ui(kind, text, data) == [ch |-> "ui", kind |-> kind, text |-> text, data |-> data]

LogFileName == "allocation_app.log"

\* frame.head(k)
HeadOf(frame, k) ==
    [columns |-> frame.columns,
     rows |-> SubSeq(frame.rows, 1, IF Len(frame.rows) < k THEN Len(frame.rows) ELSE k)]

\* A plausible bug: the failure is logged and no notice is rendered.
OnException_silent(hs, msg) == Emit(hs, "ERROR", "Processing error")

\* A plausible bug: the notice is rendered before the failure is logged.
OnException_notice_first(hs, msg) ==
    <<Ui("error", <<"Error: ", msg, ". See logs for details (", LogFileName, ").">>, NoDf)>>
    \o Emit(hs, "ERROR", "Processing error")

\* lines 132-134: the handler of the script's try block
OnException(hs, msg) ==
    Emit(hs, "ERROR", "Processing error")
    \o <<Ui("error", <<"Error: ", msg, ". See logs for details (", LogFileName, ").">>, NoDf)>>

\* lines 86-91
Page ==
    <<Ui("set_page_config", <<"MTP Allocation">>, NoDf),
      Ui("title", <<"MTP Allocation Tool">>, NoDf),
      Ui("file_uploader", <<"Upload input CSV">>, NoDf)>>

\* lines 96-100
Preview(frame) ==
    <<Ui("write", <<"Preview of uploaded data (first 10 rows):">>, NoDf),
      Ui("dataframe", <<>>, HeadOf(frame, 10)),
      Ui("info", <<"Running allocation...">>, NoDf)>>

\* lines 103-130
Render(r) ==
    <<Ui("success", <<"Allocation completed successfully.">>, NoDf),
      Ui("subheader", <<"Allocation Preview">>, NoDf),
      Ui("dataframe", <<>>, HeadOf(r.allocation_df, 20)),
      Ui("subheader", <<"Faculty Allocation Counts">>, NoDf),
      Ui("dataframe", <<>>, r.fac_count),
      Ui("download_button", <<"Download allocation CSV">>, r.allocation_df),
      Ui("download_button", <<"Download faculty counts CSV">>, r.fac_count)>>

\* One run of the script with file in the uploader: the handlers, the build's
\* answers, the frame and the call of this run, and what it rendered and
\* logged.
RunOutcomes(hs0, file, m) ==
    LET hs == LoggerSetup(hs0)
    IN  IF file.parse = "none"
        THEN {[handlers |-> hs, memo |-> m, orig |-> NoDf, df |-> NoDf, results |-> <<>>,
               events |-> Page \o <<Ui("info",
                    <<"Please upload an input CSV to start allocation.">>, NoDf)>>]}
        ELSE IF file.parse = "fail"
        THEN {[handlers |-> hs, memo |-> m, orig |-> NoDf, df |-> NoDf, results |-> <<>>,
               events |-> Page \o OnException(hs, file.msg)]}
        ELSE {[handlers |-> hs, memo |-> o.memo, orig |-> file.data, df |-> o.r.df,
               results |-> <<Outcome(file.data, o.r)>>,
               events |-> Page \o Preview(file.data) \o o.r.logs
                          \o (IF o.r.status = "raised"
                              THEN OnException(hs, o.r.exc.msg)
                              ELSE Render(o.r))] :
              o \in allocate_students(file.data, hs, m)}

\* the files a user uploads: two that pd.read_csv rejects, and the datasets
ShellHeaders ==
    {<<nRoll, nGpa>>, <<nRoll, nCGPA>>, <<nCGPA, nPref1>>, <<nMyCgpa, nPref1, nPref2>>}

ShellFiles ==
    {[parse |-> "fail", msg |-> "No columns to parse from file", data |-> NoDf],
     [parse |-> "fail", msg |-> "Error tokenizing data", data |-> NoDf]}
    \cup {[parse |-> "ok", msg |-> "", data |-> MkDf(h, p)] :
            h \in ShellHeaders, p \in Picks({NaN}, {<<FacX, FacY, FacY>>})}

InitShell ==
    /\ orig = NoDf
    /\ df = NoDf
    /\ memo = <<>>
    /\ results = <<>>
    /\ events = <<>>
    /\ handlers = <<>>
    /\ uploaded_file = NoFile
    /\ pc = [s \in 1..MaxSessions |-> "idle"]
    /\ runs = [s \in 1..MaxSessions |-> 0]

RunScript(file) ==
    /\ uploaded_file' = file
    /\ \E o \in RunOutcomes(handlers, file, memo) :
          /\ handlers' = o.handlers
          /\ memo' = o.memo
          /\ orig' = o.orig
          /\ df' = o.df
          /\ results' = o.results
          /\ events' = o.events
    /\ UNCHANGED <<pc, runs>>

\* the user puts a file into the uploader
Upload == \E f \in ShellFiles : RunScript(f)

\* the page is loaded, or a widget is used (a download button is clicked)
Rerun == RunScript(uploaded_file)

\* the user removes the file
Clear == uploaded_file # NoFile /\ RunScript(NoFile)

NextShell == Upload \/ Rerun \/ Clear

SpecShell == InitShell /\ [][NextShell]_vars

(***************************************************************************)
(* The logger setup (lines 10-23) run by several sessions of one process,  *)
(* each on its own thread: a thread may be preempted between any two       *)
(* statements.                                                             *)
(***************************************************************************)
Sessions == 1..MaxSessions

InitLogger ==
    /\ orig = NoDf
    /\ df = NoDf
    /\ memo = <<>>
    /\ results = <<>>
    /\ events = <<>>
    /\ handlers = <<>>
    /\ uploaded_file = NoFile
    /\ pc = [s \in Sessions |-> "idle"]
    /\ runs = [s \in Sessions |-> 0]

\* lines 10-11: a run of the script begins
GetLogger(s) ==
    /\ pc[s] = "idle"
    /\ runs[s] < MaxReruns
    /\ pc' = [pc EXCEPT ![s] = "l14"]
    /\ UNCHANGED <<orig, df, memo, results, events, handlers, uploaded_file, runs>>

\* line 14: if not logger.handlers
CheckHandlers(s) ==
    /\ pc[s] = "l14"
    /\ IF handlers = <<>>
       THEN pc' = [pc EXCEPT ![s] = "l22"] /\ runs' = runs
       ELSE pc' = [pc EXCEPT ![s] = "idle"] /\ runs' = [runs EXCEPT ![s] = @ + 1]
    /\ UNCHANGED <<orig, df, memo, results, events, handlers, uploaded_file>>

\* lines 15-22: logger.addHandler(fh)
AddFileHandler(s) ==
    /\ pc[s] = "l22"
    /\ handlers' = Append(handlers, fh)
    /\ pc' = [pc EXCEPT ![s] = "l23"]
    /\ UNCHANGED <<orig, df, memo, results, events, uploaded_file, runs>>

\* line 23: logger.addHandler(sh)
AddStreamHandler(s) ==
    /\ pc[s] = "l23"
    /\ handlers' = Append(handlers, sh)
    /\ pc' = [pc EXCEPT ![s] = "idle"]
    /\ runs' = [runs EXCEPT ![s] = @ + 1]
    /\ UNCHANGED <<orig, df, memo, results, events, uploaded_file>>

NextLogger ==
    \E s \in Sessions :
        GetLogger(s) \/ CheckHandlers(s) \/ AddFileHandler(s) \/ AddStreamHandler(s)

SpecLogger == InitLogger /\ [][NextLogger]_vars

(***************************************************************************)
(* The vocabulary of the claims, stated on the tables and the upload.      *)
(***************************************************************************)
Returned == {k \in 1..Len(results) : results[k].status = "returned"}
Raised == {k \in 1..Len(results) : results[k].status = "raised"}

\* the columns whose lower-cased name contains "cgpa" (one-based)
GradeMatches(cols) == {p \in 1..Len(cols) : Contains(Lower(cols[p]), cgpa)}

\* the grade column: the first of them
GradeCol(cols) == CHOOSE p \in GradeMatches(cols) : \A q \in GradeMatches(cols) : p <= q

\* the grade of input row a, present or missing
Grade(a) == to_numeric(orig.rows[a][GradeCol(orig.columns)])

\* where input row a stands in the table of call k (one-based)
RankOf(k, a) == CHOOSE i \in 1..Len(results[k].indexer) : results[k].indexer[i] = a

\* the AssignedFaculty cell of row i of a table
AssignedCell(t, i) == t.rows[i][ColPos(t.columns, AssignedFaculty)]

\* C1: in every allocation table, the row at rank idx carries as its
\* AssignedFaculty the value that same input row has in preference column
\* idx mod n, rows without a grade included.
C1_RoundRobin ==
    \A k \in Returned :
        LET t == results[k].allocation_df
            g == GradeCol(orig.columns)
            n == Len(orig.columns) - g
        IN  \A i \in 1..Len(t.rows) :
                AssignedCell(t, i) = orig.rows[results[k].indexer[i]][g + ((i - 1) % n) + 1]

\* the round robin wrapped around (rank 2 with two preference columns that
\* differ in that row) on a row without a grade
C1_Witness ==
    \E k \in Returned :
        LET t == results[k].allocation_df
            g == GradeCol(orig.columns)
        IN  /\ Len(orig.columns) - g = 2
            /\ Len(t.rows) = 3
            /\ isna(Grade(results[k].indexer[3]))
            /\ orig.rows[results[k].indexer[3]][g + 1] # orig.rows[results[k].indexer[3]][g + 2]
            /\ AssignedCell(t, 3) = orig.rows[results[k].indexer[3]][g + 1]

\* C2: the ranking is a stable sort by grade, descending, missing grades
\* last: input row a stands before input row b whenever a's grade is the
\* greater, or a has a grade and b has none, or the grades are equal or both
\* missing and a came first in the input.
C2_StableRanking ==
    \A k \in Returned :
        \A a, b \in 1..Len(orig.rows) :
            (\/ ~isna(Grade(a)) /\ ~isna(Grade(b)) /\ Grade(a).n > Grade(b).n
             \/ ~isna(Grade(a)) /\ isna(Grade(b))
             \/ Grade(a) = Grade(b) /\ a < b)
            => RankOf(k, a) < RankOf(k, b)

\* C3: the call raises the ValueError of a missing grade column exactly when
\* no lower-cased name contains "cgpa", that of missing preference columns
\* exactly when the first such column is the last column; then it returns no
\* table; on every other dataset it raises nothing.
C3_InvalidInput ==
    \A k \in 1..Len(results) :
        LET cols == results[k].arg.columns
            r == results[k]
        IN  /\ (r.status = "raised" /\ r.exc = ValueError(MsgNoCgpa))
                  <=> GradeMatches(cols) = {}
            /\ (r.status = "raised" /\ r.exc = ValueError(MsgNoPrefs))
                  <=> (GradeMatches(cols) # {} /\ GradeCol(cols) = Len(cols))
            /\ r.status = "raised" =>
                  /\ r.exc.kind = "ValueError"
                  /\ r.allocation_df = NoDf
                  /\ r.fac_count = NoDf
            /\ r.status = "returned" => r.exc = NoExc /\ r.allocation_df # NoDf

\* a call was rejected because the first of two grade-like columns is not
\* the last column's predecessor but the last column holds the only match
C3_Witness ==
    \E k \in Raised :
        /\ results[k].exc = ValueError(MsgNoPrefs)
        /\ Len(results[k].arg.columns) = 3
        /\ \E j \in Raised : results[j].allocation_df = NoDf

\* C4: the count table has one row per distinct AssignedFaculty value (NaN
\* is one value), each with the number of allocation rows carrying it; the
\* counts add up to the number of allocation rows and never increase down
\* the table.
RECURSIVE SumCounts(_)
SumCounts(rows) ==
    IF rows = <<>> THEN 0 ELSE rows[1][2].n + SumCounts(Tail(rows))

C4_FacultyCounts ==
    \A k \in Returned :
        LET t == results[k].allocation_df
            c == results[k].fac_count
            AssignedAt(v) == {i \in 1..Len(t.rows) : AssignedCell(t, i) = v}
        IN  /\ \A i, j \in 1..Len(c.rows) : c.rows[i][1] = c.rows[j][1] => i = j
            /\ {c.rows[i][1] : i \in 1..Len(c.rows)}
                  = {AssignedCell(t, i) : i \in 1..Len(t.rows)}
            /\ \A i \in 1..Len(c.rows) :
                  c.rows[i][2] = Num(Cardinality(AssignedAt(c.rows[i][1])))
            /\ SumCounts(c.rows) = Len(t.rows)
            /\ \A i \in 1..(Len(c.rows) - 1) : c.rows[i][2].n >= c.rows[i + 1][2].n

\* the assignments were NaN, X, X: the group met first is the smaller one,
\* and the missing value has its own row
C4_Witness ==
    \E k \in Returned :
        LET t == results[k].allocation_df
            c == results[k].fac_count
        IN  /\ Len(t.rows) = 3
            /\ isna(AssignedCell(t, 1))
            /\ AssignedCell(t, 2) = FacX
            /\ AssignedCell(t, 3) = FacX
            /\ c.rows = <<<<FacX, Num(2)>>, <<NaN, Num(1)>>>>

\* C5: every later call on the same Uploaded Dataset gives the two tables of
\* the first call, the dataset object a former call has coerced in place
\* included.
C5_Deterministic ==
    \A i, j \in 1..Len(results) :
        /\ results[i].status = results[j].status
        /\ results[i].allocation_df = results[j].allocation_df
        /\ results[i].fac_count = results[j].fac_count

\* the second call received the object the first one had coerced (a text
\* grade became a number or NaN), with equal grades and equal counts in it
C5_Witness ==
    /\ Len(results) = 2
    /\ results[1].status = "returned"
    /\ results[2].arg # results[1].arg
    /\ results[2].arg = df
    /\ \E a, b \in 1..Len(orig.rows) : a # b /\ ~isna(Grade(a)) /\ Grade(a) = Grade(b)

\* C6 as stated: the table's columns are the input's columns followed by one
\* more, AssignedFaculty, and its rows are the input rows, each once.
C6_InputRowsKept ==
    \A k \in Returned :
        LET t == results[k].allocation_df
            w == Len(orig.columns)
        IN  /\ t.columns = Append(orig.columns, AssignedFaculty)
            /\ \E p \in Perms(Len(orig.rows)) :
                  /\ Len(t.rows) = Len(orig.rows)
                  /\ \A i \in 1..Len(t.rows) : SubSeq(t.rows[i], 1, w) = orig.rows[p[i]]

\* C6 as the code has it: the columns are the input's columns, followed by
\* AssignedFaculty unless the input has a column of that name already (it is
\* then overwritten in place); the rows are the input rows, each once, with
\* the grade cell replaced by its numeric coercion, ordered by grade
\* descending with the missing grades last.
C6_CoercedRowsKept ==
    \A k \in Returned :
        LET t == results[k].allocation_df
            w == Len(orig.columns)
            g == GradeCol(orig.columns)
            has == \E c \in 1..w : orig.columns[c] = AssignedFaculty
        IN  /\ t.columns = IF has THEN orig.columns ELSE Append(orig.columns, AssignedFaculty)
            /\ \E p \in Perms(Len(orig.rows)) :
                  /\ Len(t.rows) = Len(orig.rows)
                  /\ \A i \in 1..Len(t.rows) : \A c \in 1..w :
                        orig.columns[c] # AssignedFaculty =>
                            t.rows[i][c] = IF c = g THEN to_numeric(orig.rows[p[i]][c])
                                           ELSE orig.rows[p[i]][c]
            /\ \A i \in 1..(Len(t.rows) - 1) :
                  \/ isna(t.rows[i + 1][g])
                  \/ ~isna(t.rows[i][g]) /\ t.rows[i][g].n >= t.rows[i + 1][g].n

\* a table of three rows, one of them with a grade that was a text
C6_Witness ==
    \E k \in Returned :
        LET t == results[k].allocation_df
            g == GradeCol(orig.columns)
        IN  /\ Len(t.rows) = 3
            /\ \E a \in 1..3 : orig.rows[a][g].t = "text" /\ ~isna(Grade(a))
            /\ \E a \in 1..3 : isna(Grade(a))
            /\ \E c \in 1..Len(orig.columns) : orig.columns[c] = AssignedFaculty

(***************************************************************************)
(* The vocabulary of the claims about the script's runs.                   *)
(***************************************************************************)
\* the run that led to this state had a file in the uploader
Pass == uploaded_file.parse # "none"

ParseOk == uploaded_file.parse = "ok"

AllocOk == Len(results) = 1 /\ results[1].status = "returned"

UiAt(kind) == {i \in 1..Len(events) : events[i].ch = "ui" /\ events[i].kind = kind}

UiWith(kind, text) == {i \in UiAt(kind) : events[i].text = text}

\* the lines of error severity in the log file
ErrorLines == {i \in 1..Len(events) : events[i].ch = "file" /\ events[i].kind = "ERROR"}

ResultsReady ==
    /\ Cardinality(UiWith("success", <<"Allocation completed successfully.">>)) = 1
    /\ Cardinality(UiWith("subheader", <<"Allocation Preview">>)) = 1
    /\ Cardinality(UiWith("subheader", <<"Faculty Allocation Counts">>)) = 1
    /\ \E i \in UiAt("dataframe") : events[i].data = HeadOf(results[1].allocation_df, 20)
    /\ \E i \in UiAt("dataframe") : events[i].data = results[1].fac_count
    /\ Cardinality(UiWith("download_button", <<"Download allocation CSV">>)) = 1
    /\ Cardinality(UiWith("download_button", <<"Download faculty counts CSV">>)) = 1
    /\ UiAt("error") = {}

ErrorShown ==
    /\ Cardinality(UiAt("error")) = 1
    /\ UiAt("success") = {}
    /\ UiAt("subheader") = {}
    /\ UiAt("download_button") = {}
    /\ Cardinality(UiAt("dataframe")) <= 1

\* C7: a pass on an upload ends in exactly one of ResultsReady and Error; in
\* ResultsReady only if the parse and the call of allocate of that pass both
\* succeeded, in Error (one error notice, no success notice, no result
\* table, no download) if either failed; after a failed parse allocate is
\* not called.
C7_PassOutcome ==
    Pass =>
        /\ ResultsReady # ErrorShown
        /\ ResultsReady => ParseOk /\ AllocOk
        /\ ~(ParseOk /\ AllocOk) => ErrorShown
        /\ ~ParseOk =>
              /\ results = <<>>
              /\ UiWith("info", <<"Running allocation...">>) = {}
              /\ \A i \in 1..Len(events) : events[i].text # <<MsgAllocError>>

\* the parse succeeded, allocate raised, and the pass ended in Error
C7_Witness ==
    /\ Pass
    /\ ParseOk
    /\ Len(results) = 1
    /\ results[1].status = "raised"
    /\ ErrorShown
    /\ UiWith("info", <<"Running allocation...">>) # {}

\* the exception the validation raises inside the engine on these columns
RaisedInside(cols) ==
    IF GradeMatches(cols) = {} THEN ValueError(MsgNoCgpa) ELSE ValueError(MsgNoPrefs)

\* C8: when allocate fails, the script catches the very exception raised
\* inside the engine (same kind, same message), and its error notice is that
\* message with the reference to allocation_app.log.
C8_MessageSurfaced ==
    (Pass /\ Len(results) = 1 /\ results[1].status = "raised") =>
        /\ results[1].exc = RaisedInside(orig.columns)
        /\ \A i \in UiAt("error") :
              events[i].text = <<"Error: ", RaisedInside(orig.columns).msg,
                                 ". See logs for details (", "allocation_app.log", ").">>
        /\ UiAt("error") # {}

\* allocate raised for a grade column in last place and the notice shows it
C8_Witness ==
    /\ Pass
    /\ Len(results) = 1
    /\ results[1].exc = ValueError(MsgNoPrefs)
    /\ \E i \in UiAt("error") : events[i].text[2] = MsgNoPrefs

\* C9: a pass that fails (parse or allocate) has written a line of error
\* severity to the log before it renders the error notice; no failure ends a
\* pass without both; nothing is tried twice.
C9_LoggedBeforeNotice ==
    Pass =>
        /\ \A k \in UiAt("error") : \E j \in ErrorLines : j < k
        /\ ~(ParseOk /\ AllocOk) => ErrorLines # {} /\ UiAt("error") # {}
        /\ Len(results) <= 1
        /\ Cardinality(UiWith("info", <<"Running allocation...">>)) <= 1
        /\ Cardinality({i \in ErrorLines : events[i].text = <<MsgAllocError>>}) <= 1
        /\ Cardinality({i \in ErrorLines : events[i].text = <<"Processing error">>}) <= 1

\* the parse failed: the only error line is the script's, and it stands
\* before the notice
C9_Witness ==
    /\ Pass
    /\ ~ParseOk
    /\ Cardinality(ErrorLines) = 1
    /\ \E k \in UiAt("error") : \E j \in ErrorLines : j < k

\* C10: once the logger setup has been executed one or more times and no
\* execution of it is under way, the logger has exactly two handlers, the
\* file handler and the console handler, however the executions of the
\* sessions interleaved.
C10_TwoSinks ==
    (/\ \A s \in Sessions : pc[s] = "idle"
     /\ \E s \in Sessions : runs[s] >= 1)
    => /\ Len(handlers) = 2
       /\ Cardinality({i \in 1..Len(handlers) : handlers[i].sink = "file"}) = 1
       /\ Cardinality({i \in 1..Len(handlers) : handlers[i].sink = "console"}) = 1

====
